---- MODULE Spec2Model ----
(***************************************************************************)
(* Model of guillotina_s3storage/storage.py: the multipart upload          *)
(* lifecycle of S3FileStorageManager (start / append / finish), the retry  *)
(* decorator around the remote calls, and bucket resolution and caching in *)
(* S3BlobStore.  The S3 service is the environment: it keeps buckets, open *)
(* multipart uploads and objects, and every remote call may fail with an   *)
(* error the operation's fault plan chooses.                               *)
(***************************************************************************)
EXTENDS Integers, Sequences, FiniteSets, TLC

VARIABLES
    dm,              \* the upload session (data manager) of one destination field
    file_uri,        \* uri of the file the destination field holds, or None
    bucket_override, \* container.bucket_override, or None
    cached_buckets,  \* S3BlobStore._cached_buckets (a list)
    buckets,         \* S3: the buckets that exist
    uploads,         \* S3: the ids of the open multipart uploads
    objects,         \* S3: the keys of the stored objects
    uploaded,        \* S3: the parts accepted for the newest upload, in arrival order
    nkeys,           \* number of keys generate_key has produced
    nmpu,            \* number of multipart uploads S3 has created
    last,            \* the last operation: name, result, remote calls, session before it
    prev,            \* name and result of the operation before the last
    phase,           \* lifecycle state of the session (spec 4.4)
    started_key,     \* key stored by the newest successful start()
    task,            \* the concurrent tasks: operation, position, slots held, outcome
    sem,             \* free slots of S3BlobStore._s3_request_semaphore
    pool             \* max_pool_connections

vars == <<dm, file_uri, bucket_override, cached_buckets, buckets, uploads, objects,
          uploaded, nkeys, nmpu, last, prev, phase, started_key, task, sem, pool>>

\* the state of one upload session and of the operation log
uploadvars == <<dm, file_uri, uploads, objects, uploaded, nkeys, nmpu, last, prev,
                phase, started_key>>

\* the state of the client pool and of the tasks that share it
poolvars == <<task, sem, pool>>

-----------------------------------------------------------------------------
(* Bounds of the model *)

\* start() calls explored (each generates one key)
MaxStarts == 2
\* parts of one multipart upload, and chunks of one append()
MaxParts == 2
\* keys of the objects a bucket holds when it is listed or vacuumed
MaxKeys == 3
\* largest number of entries S3 puts in one page of a listing
MaxPage == 2
\* concurrent tasks, each running one operation
NumTasks == 2
\* largest max_pool_connections explored
MaxPool == 2

-----------------------------------------------------------------------------
(* Values *)

\* Python's None, and a value that is present: optional values are sequences
\* of length at most one
None == <<>>
Some(x) == <<x>>
Val(o) == o[1]

\* backoff.on_exception(..., max_tries=3)
max_tries == 3

\* botocore.exceptions.ClientError, by error code
ClientError == {"NotFound", "AccessDenied"}

\* every error a remote call is made to raise
Errors == ClientError \cup {"BotoCoreError", "TimeoutError"}

\* (aiohttp's ClientPayloadError, the third member, is retried as BotoCoreError is)
RETRIABLE_EXCEPTIONS == ClientError \cup {"BotoCoreError"}

\* e.response["Error"]["Code"]
ErrorCode(e) == IF e = "NotFound" THEN 404 ELSE 403

\* chunk bodies; the zero-length upload sends the empty body
Data == {"a"}
EmptyBody == ""

OverrideBucket == "override-bucket"

\* bucket name computed from the container id and the configured base name
ContainerBucket == "container-bucket"

BlankSession ==
    [bucket_name |-> None, upload_file_id |-> None, multipart |-> None,
     block |-> None, mpu |-> None, uri |-> None]

-----------------------------------------------------------------------------
(* An operation runs on a world record w: the program and S3 state it reads *)
(* and writes, the remote calls it has issued so far, and its outcome       *)
(* (res is "ok" or the exception raised, ret the value returned).           *)

World ==
    [dm |-> dm, file_uri |-> file_uri, bucket_override |-> bucket_override,
     cached_buckets |-> cached_buckets, buckets |-> buckets, uploads |-> uploads,
     objects |-> objects, uploaded |-> uploaded, nkeys |-> nkeys, nmpu |-> nmpu,
     calls |-> <<>>, res |-> "ok", ret |-> None]

Raise(w, exc) == [w EXCEPT !.res = exc, !.ret = None]

Return(w, value) == [w EXCEPT !.res = "ok", !.ret = value]

\* the remote call c, with its outcome, is appended to the calls issued
Issue(w, c) == [w EXCEPT !.calls = Append(@, c)]

\* number of calls of remote operation op already issued in this operation
Issued(w, op) ==
    Cardinality({i \in 1..Len(w.calls) : w.calls[i].op = op})

\* number of upload_part calls already issued for part number part
IssuedPart(w, part) ==
    Cardinality({i \in 1..Len(w.calls) :
                    /\ w.calls[i].op = "upload_part"
                    /\ w.calls[i].PartNumber = part})

\* The fault plan f of one operation: the error err S3 raises when it fails,
\* the one-shot calls that fail, and for each retried call the number of
\* leading attempts that fail; list is the number of the listing call that
\* fails (0 for none), failed the keys a batched delete reports as errors.
NoFaults(e) ==
    [err |-> e, abort |-> FALSE, head |-> FALSE, createb |-> FALSE, del |-> FALSE,
     create |-> 0, part |-> <<>>, complete |-> 0, get |-> 0,
     list |-> 0, delobjs |-> FALSE, failed |-> {}]

\* the decision of backoff.on_exception after an attempt raised exc
GiveUp(exc, tries) == exc \notin RETRIABLE_EXCEPTIONS \/ tries >= max_tries

-----------------------------------------------------------------------------
(* S3BlobStore.  A statement that follows a call that may raise is an       *)
(* operator of the world the call leaves.                                   *)

\* client.head_bucket as S3 answers it
head_bucket(w, name, f) ==
    LET out == IF f.head THEN f.err
               ELSE IF name \in w.buckets THEN "ok" ELSE "NotFound"
    IN  Raise(Issue(w, [op |-> "head_bucket", Bucket |-> name, res |-> out]), out)

\* client.create_bucket as S3 answers it
create_bucket(w, name, f) ==
    LET out == IF f.createb THEN f.err ELSE "ok"
        w1  == Issue(w, [op |-> "create_bucket", Bucket |-> name, res |-> out])
    IN  IF out = "ok" THEN Return([w1 EXCEPT !.buckets = @ \cup {name}], None)
        ELSE Raise(w1, out)

\* lines 525-530, after head_bucket
accessibility(w1) ==
    IF w1.res = "ok" THEN Return(w1, TRUE)
    ELSE IF w1.res \in ClientError
         THEN IF ErrorCode(w1.res) = 404 THEN Return(w1, FALSE)
              ELSE Raise(w1, "S3Exception")
    ELSE w1

check_bucket_accessibility(w, bucket_name, f) ==
    accessibility(head_bucket(w, bucket_name, f))

\* lines 348-355, after head_bucket
create_if_missing(w1, bucket_name, f) ==
    IF w1.res # "ok" /\ w1.res \notin ClientError THEN w1
    ELSE IF w1.res \in ClientError /\ ErrorCode(w1.res) = 404
         THEN create_bucket(w1, bucket_name, f)
    ELSE Return(w1, None)

get_or_create_bucket(w, bucket_name, f) ==
    create_if_missing(head_bucket(w, bucket_name, f), bucket_name, f)

\* override_checked, were the override cached as a computed name is
override_checked_cached(w1, s3_bucket_override) ==
    IF w1.res # "ok" THEN w1
    ELSE IF ~w1.ret THEN Raise(w1, "HTTPPreconditionFailed")
    ELSE Return([w1 EXCEPT !.cached_buckets = Append(@, s3_bucket_override)],
                s3_bucket_override)

\* lines 363-372, after check_bucket_accessibility
override_checked(w1, s3_bucket_override) ==
    IF w1.res # "ok" THEN w1
    ELSE IF ~w1.ret THEN Raise(w1, "HTTPPreconditionFailed")
    ELSE Return(w1, s3_bucket_override)

\* InCache, were the cache never consulted
InCache_never(bucket_name, cache) == FALSE

\* line 387: the name is answered from the cache
InCache(bucket_name, cache) ==
    \E i \in 1..Len(cache) : cache[i] = bucket_name

\* lines 392-393, after _get_or_create_bucket
cache_bucket(w1, bucket_name) ==
    IF w1.res # "ok" THEN w1
    ELSE Return([w1 EXCEPT !.cached_buckets = Append(@, bucket_name)], bucket_name)

get_bucket_name(w, f) ==
    IF w.bucket_override # None
    THEN override_checked(check_bucket_accessibility(w, Val(w.bucket_override), f),
                          Val(w.bucket_override))
    ELSE IF InCache(ContainerBucket, w.cached_buckets)
         THEN Return(w, ContainerBucket)
    ELSE cache_bucket(get_or_create_bucket(w, ContainerBucket, f), ContainerBucket)

-----------------------------------------------------------------------------
(* S3FileStorageManager *)

\* client.delete_object as S3 answers it
delete_object(w, bucket, key, f) ==
    LET out == IF f.del THEN f.err ELSE "ok"
        w1  == Issue(w, [op |-> "delete_object", Bucket |-> bucket, Key |-> key,
                         res |-> out])
    IN  IF out = "ok" THEN Return([w1 EXCEPT !.objects = @ \ {key}], None)
        ELSE Raise(w1, out)

\* except botocore.exceptions.ClientError: log
except_ClientError(w1) ==
    IF w1.res \in ClientError THEN Return(w1, None) ELSE w1

\* lines 138-145, after get_bucket_name
delete_in_bucket(w1, uri, f) ==
    IF w1.res # "ok" THEN w1
    ELSE IF uri # None
         THEN except_ClientError(delete_object(w1, w1.ret, Val(uri), f))
    ELSE Raise(w1, "AttributeError")

delete_upload(w, uri, f) ==
    delete_in_bucket(get_bucket_name(w, f), uri, f)

\* client.abort_multipart_upload as S3 answers it
abort_multipart_upload(w, bucket, key, upload_id, f) ==
    LET out == IF f.abort THEN f.err
               ELSE IF upload_id \in w.uploads THEN "ok" ELSE "NotFound"
        w1  == Issue(w, [op |-> "abort_multipart_upload", Bucket |-> bucket,
                         Key |-> key, UploadId |-> upload_id, res |-> out])
    IN  IF out = "ok" THEN Return([w1 EXCEPT !.uploads = @ \ {upload_id}], None)
        ELSE Raise(w1, out)

\* except_Exception, were only ClientError caught as in delete_upload
except_Exception_narrow(w1) ==
    IF w1.res \in {"NotFound", "AccessDenied"} THEN [w1 EXCEPT !.res = "ok"] ELSE w1

\* except Exception: log
except_Exception(w1) == Return(w1, None)

abort_multipart(w, f) ==
    except_Exception(
        abort_multipart_upload(w, Val(w.dm.bucket_name), Val(w.dm.upload_file_id),
                               Val(w.dm.mpu), f))

\* client.create_multipart_upload as S3 answers it: a new upload id
create_multipart_upload(w, bucket, key, f) ==
    LET out == IF Issued(w, "create_multipart_upload") < f.create
               THEN f.err ELSE "ok"
        id  == w.nmpu + 1
        w1  == Issue(w, [op |-> "create_multipart_upload", Bucket |-> bucket,
                         Key |-> key, res |-> out,
                         UploadId |-> IF out = "ok" THEN Some(id) ELSE None])
    IN  IF out = "ok"
        THEN Return([w1 EXCEPT !.nmpu = id, !.uploads = @ \cup {id},
                                !.uploaded = <<>>], id)
        ELSE Raise(w1, out)

RECURSIVE create_multipart(_, _, _, _, _)

\* the retry decorator of _create_multipart, after an attempt
create_multipart_retry(w1, bucket_name, upload_id, f, tries) ==
    IF w1.res = "ok" \/ GiveUp(w1.res, tries) THEN w1
    ELSE create_multipart(w1, bucket_name, upload_id, f, tries + 1)

create_multipart(w, bucket_name, upload_id, f, tries) ==
    create_multipart_retry(create_multipart_upload(w, bucket_name, upload_id, f),
                           bucket_name, upload_id, f, tries)

\* HoldsUpload, were the test of _upload_file_id inverted
HoldsUpload_inverted(d) == d.upload_file_id = None /\ d.mpu # None

\* lines 162-164: the session holds an upload that was never finished
HoldsUpload(d) == d.upload_file_id # None /\ d.mpu # None

\* lines 169-175
start_update(d, bucket_name, upload_id, mpu) ==
    [d EXCEPT !.bucket_name = Some(bucket_name), !.upload_file_id = Some(upload_id),
              !.multipart = Some(<<>>), !.block = Some(1), !.mpu = Some(mpu)]

\* lines 169-175, after _create_multipart
start_created(w4, bucket_name, upload_id) ==
    IF w4.res # "ok" THEN w4
    ELSE Return([w4 EXCEPT !.dm = start_update(@, bucket_name, upload_id, w4.ret)],
                None)

\* lines 168-175, after get_bucket_name
start_in_bucket(w2, f) ==
    IF w2.res # "ok" THEN w2
    ELSE start_created(create_multipart([w2 EXCEPT !.nkeys = @ + 1], w2.ret,
                                        w2.nkeys + 1, f, 1),
                       w2.ret, w2.nkeys + 1)

\* lines 167-175, after the abort of a stale upload
start_aborted(w1, f) ==
    IF w1.res # "ok" THEN w1 ELSE start_in_bucket(get_bucket_name(w1, f), f)

start(w, f) ==
    start_aborted(IF HoldsUpload(w.dm) THEN abort_multipart(w, f) ELSE w, f)

\* what S3 returns for an accepted part: a tag of the body and of its arrival
ETagOf(w, data) == <<data, Len(w.uploaded) + 1>>

\* client.upload_part as S3 answers it; fails is the number of leading
\* attempts at this part that fail
upload_part_call(w, data, fails, f) ==
    LET d   == w.dm
        pn  == Val(d.block)
        out == IF IssuedPart(w, pn) < fails THEN f.err
               ELSE IF Val(d.mpu) \in w.uploads THEN "ok" ELSE "NotFound"
        tag == ETagOf(w, data)
        w1  == Issue(w, [op |-> "upload_part", Bucket |-> Val(d.bucket_name),
                         Key |-> Val(d.upload_file_id), PartNumber |-> pn,
                         UploadId |-> Val(d.mpu), Body |-> data, res |-> out,
                         ETag |-> IF out = "ok" THEN Some(tag) ELSE None])
    IN  IF out = "ok"
        THEN Return([w1 EXCEPT !.uploaded =
                        Append(@, [PartNumber |-> pn, Body |-> data, ETag |-> tag])],
                    [ETag |-> tag])
        ELSE Raise(w1, out)

RECURSIVE upload_part(_, _, _, _, _)

\* the retry decorator of _upload_part, after an attempt
upload_part_retry(w1, data, fails, f, tries) ==
    IF w1.res = "ok" \/ GiveUp(w1.res, tries) THEN w1
    ELSE upload_part(w1, data, fails, f, tries + 1)

upload_part(w, data, fails, f, tries) ==
    IF w.dm.mpu = None THEN Raise(w, "TypeError")
    ELSE upload_part_retry(upload_part_call(w, data, fails, f), data, fails, f, tries)

\* record_part, were the newest part put first in the list
record_part_prepend(d, part) ==
    [d EXCEPT !.multipart = Some(<<[PartNumber |-> Val(d.block),
                                    ETag |-> part.ETag]>> \o Val(@)),
              !.block = Some(Val(@) + 1)]

\* record_part, were _block left as it is
record_part_same_block(d, part) ==
    [d EXCEPT !.multipart = Some(Append(Val(@), [PartNumber |-> Val(d.block),
                                                 ETag |-> part.ETag]))]

\* lines 190-194 (and the same statements at lines 239-243)
record_part(d, part) ==
    [d EXCEPT !.multipart = Some(Append(Val(@), [PartNumber |-> Val(d.block),
                                                 ETag |-> part.ETag])),
              !.block = Some(Val(@) + 1)]

\* part_uploaded, were the part number advanced past a chunk that failed
part_uploaded_skip_failed(w1) ==
    IF w1.res # "ok"
    THEN IF w1.dm.block = None THEN w1
         ELSE [w1 EXCEPT !.dm.block = Some(Val(@) + 1)]
    ELSE Return([w1 EXCEPT !.dm = record_part(@, w1.ret)], None)

\* lines 190-194 and 239-243, after _upload_part
part_uploaded(w1) ==
    IF w1.res # "ok" THEN w1
    ELSE Return([w1 EXCEPT !.dm = record_part(@, w1.ret)], None)

RECURSIVE append(_, _, _, _)

\* the loop of append, after one chunk
append_next(w1, iterable, f, i) ==
    IF w1.res # "ok" THEN w1 ELSE append(w1, iterable, f, i + 1)

append(w, iterable, f, i) ==
    IF i > Len(iterable) THEN Return(w, None)
    ELSE append_next(part_uploaded(upload_part(w, iterable[i], f.part[i], f, 1)),
                     iterable, f, i)

\* client.complete_multipart_upload as S3 answers it
complete_call(w, f) ==
    LET d   == w.dm
        out == IF Issued(w, "complete_multipart_upload") < f.complete THEN f.err
               ELSE IF Val(d.mpu) \in w.uploads THEN "ok" ELSE "NotFound"
        w1  == Issue(w, [op |-> "complete_multipart_upload",
                         Bucket |-> Val(d.bucket_name), Key |-> Val(d.upload_file_id),
                         UploadId |-> Val(d.mpu), MultipartUpload |-> Val(d.multipart),
                         res |-> out])
    IN  IF out = "ok"
        THEN Return([w1 EXCEPT !.uploads = @ \ {Val(d.mpu)},
                                !.objects = @ \cup {Val(d.upload_file_id)}], None)
        ELSE Raise(w1, out)

\* ZeroLength, were _block compared with 0 as the comment above line 237 says
ZeroLength_zero(d) == d.block = Some(0)

\* ZeroLength, were the upload taken as empty while it holds at most one part
ZeroLength_one_part(d) == d.block \in {Some(1), Some(2)}

\* line 237: no part was uploaded yet
ZeroLength(d) == d.block = Some(1)

\* lines 244-250, after the empty part
complete_parts(w1, f) ==
    IF w1.res # "ok" THEN w1 ELSE complete_call(w1, f)

\* one attempt of _complete_multipart_upload
complete_attempt(w, f) ==
    IF ZeroLength(w.dm)
    THEN complete_parts(part_uploaded(upload_part(w, EmptyBody, f.part[1], f, 1)), f)
    ELSE complete_call(w, f)

RECURSIVE complete_multipart_upload(_, _, _)

\* the retry decorator of _complete_multipart_upload, after an attempt
complete_retry(w1, f, tries) ==
    IF w1.res = "ok" \/ GiveUp(w1.res, tries) THEN w1
    ELSE complete_multipart_upload(w1, f, tries + 1)

complete_multipart_upload(w, f, tries) ==
    complete_retry(complete_attempt(w, f), f, tries)

\* _is_uploaded_file(file), on the uri of the field's file
is_uploaded_file(uri) == uri # None

\* finish_update, were only the uri stored
finish_update_uri_only(d) == [d EXCEPT !.uri = d.upload_file_id]

\* lines 224-230
finish_update(d) ==
    [d EXCEPT !.uri = d.upload_file_id, !.multipart = None, !.mpu = None,
              !.block = None, !.upload_file_id = None]

\* lines 224-230, after _complete_multipart_upload
finish_completed(w2) ==
    IF w2.res # "ok" THEN w2 ELSE Return([w2 EXCEPT !.dm = finish_update(@)], None)

\* lines 222-230, after the delete of the previous file
finish_cleaned(w1, f) ==
    IF w1.res # "ok" THEN w1
    ELSE finish_completed(IF w1.dm.mpu # None
                          THEN complete_multipart_upload(w1, f, 1) ELSE w1)

finish(w, f, should_clean) ==
    finish_cleaned(IF is_uploaded_file(w.file_uri) /\ should_clean
                   THEN except_ClientError(delete_upload(w, w.file_uri, f))
                   ELSE w, f)

\* client.get_object as S3 answers it
get_object(w, bucket, key, f) ==
    LET out == IF Issued(w, "get_object") < f.get THEN f.err
               ELSE IF key \in w.objects THEN "ok" ELSE "NotFound"
    IN  Raise(Issue(w, [op |-> "get_object", Bucket |-> bucket, Key |-> key,
                        res |-> out]), out)

\* lines 105-106, after get_bucket_name
download_in_bucket(w1, uri, f) ==
    IF w1.res # "ok" THEN w1 ELSE get_object(w1, w1.ret, uri, f)

RECURSIVE download(_, _, _, _)

\* the retry decorator of _download, after an attempt
download_retry(w2, uri, f, tries) ==
    IF w2.res = "ok" \/ GiveUp(w2.res, tries) THEN w2
    ELSE download(w2, uri, f, tries + 1)

download(w, uri, f, tries) ==
    download_retry(download_in_bucket(get_bucket_name(w, f), uri, f), uri, f, tries)

iter_data(w, f) ==
    IF ~is_uploaded_file(w.file_uri) THEN Raise(w, "FileNotFoundException")
    ELSE download(w, Val(w.file_uri), f, 1)

-----------------------------------------------------------------------------
(* S3BlobStore: enumeration and batched delete *)

Keys == 1..MaxKeys

\* the keys of S in the order S3 lists them
Listing(S) ==
    CHOOSE s \in [1..Cardinality(S) -> S] :
        \A i, j \in 1..Cardinality(S) : i < j => s[i] < s[j]

\* client.list_objects as S3 answers it: at most page entries after marker
list_objects(w, bucket, marker, page, f) ==
    LET out  == IF Issued(w, "list_objects") + 1 = f.list THEN f.err
                ELSE IF bucket \in w.buckets THEN "ok" ELSE "NotFound"
        rest == Listing({k \in w.objects : marker = None \/ k > Val(marker)})
        resp == [Contents |-> SubSeq(rest, 1, IF Len(rest) < page THEN Len(rest)
                                              ELSE page),
                 IsTruncated |-> Len(rest) > page, MaxKeys |-> page]
        w1   == Issue(w, [op |-> "list_objects", Bucket |-> bucket,
                          Marker |-> marker, res |-> out, MaxKeys |-> page,
                          Contents |-> IF out = "ok" THEN resp.Contents ELSE <<>>])
    IN  IF out = "ok" THEN Return(w1, resp) ELSE Raise(w1, out)

RECURSIVE paginate(_, _, _, _, _, _)

\* lines 415-419, after one page: its items are yielded, and the paginator
\* asks for the page after the last key while the listing is truncated
page_listed(w1, bucket, page, f, items) ==
    IF w1.res # "ok" THEN w1
    ELSE IF w1.ret.IsTruncated
         THEN paginate(w1, bucket,
                       Some(w1.ret.Contents[Len(w1.ret.Contents)]), page, f,
                       items \o w1.ret.Contents)
    ELSE Return(w1, items \o w1.ret.Contents)

\* paginator.paginate, from marker on; items are the entries yielded so far
paginate(w, bucket, marker, page, f, items) ==
    page_listed(list_objects(w, bucket, marker, page, f), bucket, page, f, items)

\* lines 413-419, after the first list_objects call, whose result is not used
first_listed(w2, bucket, page, f) ==
    IF w2.res # "ok" THEN w2 ELSE paginate(w2, bucket, None, page, f, <<>>)

\* lines 409-419, after get_bucket_name
iterate_in_bucket(w1, page, f) ==
    IF w1.res # "ok" THEN w1
    ELSE first_listed(list_objects(w1, w1.ret, None, page, f), w1.ret, page, f)

\* iterate_bucket, consumed to its end; page is the page size of S3
iterate_bucket(w, page, f) ==
    iterate_in_bucket(get_bucket_name(w, f), page, f)

\* client.delete_objects as S3 answers it: every key is reported, as deleted
\* or as an error
delete_objects(w, bucket, keys, f) ==
    LET out  == IF f.delobjs THEN f.err
                ELSE IF bucket \in w.buckets THEN "ok" ELSE "NotFound"
        resp == [Deleted |-> SelectSeq(keys, LAMBDA k : k \notin f.failed),
                 Errors |-> SelectSeq(keys, LAMBDA k : k \in f.failed)]
        w1   == Issue(w, [op |-> "delete_objects", Bucket |-> bucket,
                          Objects |-> keys, res |-> out,
                          Deleted |-> IF out = "ok" THEN resp.Deleted ELSE <<>>,
                          Errors |-> IF out = "ok" THEN resp.Errors ELSE <<>>])
    IN  IF out = "ok"
        THEN Return([w1 EXCEPT !.objects =
                        @ \ {resp.Deleted[i] : i \in 1..Len(resp.Deleted)}], resp)
        ELSE Raise(w1, out)

\* blobs_deleted, were a key reported as an error raised to the caller
blobs_deleted_raising(w2) ==
    IF w2.res # "ok" THEN w2
    ELSE IF w2.ret.Errors # <<>> THEN Raise(w2, "S3Exception")
    ELSE Return(w2, <<w2.ret.Deleted, w2.ret.Errors>>)

\* lines 494-499, after delete_objects
blobs_deleted(w2) ==
    IF w2.res # "ok" THEN w2 ELSE Return(w2, <<w2.ret.Deleted, w2.ret.Errors>>)

\* lines 487-499, after the bucket name is known
delete_in_named_bucket(w1, keys, f) ==
    IF w1.res # "ok" THEN w1 ELSE blobs_deleted(delete_objects(w1, w1.ret, keys, f))

delete_blobs(w, keys, bucket_name, f) ==
    delete_in_named_bucket(IF bucket_name = None THEN get_bucket_name(w, f)
                           ELSE Return(w, Val(bucket_name)), keys, f)

-----------------------------------------------------------------------------
(* Concurrent tasks on one S3BlobStore.  A task runs from one await to the  *)
(* next in one step: it waits for a slot of the semaphore, or it waits for  *)
(* the answer of the remote call it issued while holding a slot.            *)

Tasks == 1..NumTasks

IdleTask ==
    [op |-> "none", pc |-> "idle", held |-> 0, name |-> None, created |-> 0,
     res |-> "ok", ret |-> None, fault |-> FALSE]

\* asyncio.BoundedSemaphore(max_pool_connections), and no task running
PoolIdle(n) ==
    /\ pool = n
    /\ sem = n
    /\ task = [t \in Tasks |-> IdleTask]

\* the positions in which a task waits in "async with self.s3_client()"
Waiting == {"acc_wait", "probe_wait", "create_wait", "db_wait"}

\* the errors S3 is made to raise to a task: a ClientError that is not 404,
\* and an error that is not a ClientError
Faults == {"AccessDenied", "TimeoutError"}

\* exit_s3_client, were the slot kept when the body raised
exit_s3_client_leaky(slots, raised) == IF raised THEN slots ELSE slots + 1

\* lines 336-339: leaving "async with self._s3_request_semaphore" releases
\* the slot, whether the body returned or raised
exit_s3_client(slots, raised) == slots + 1

\* an exception leaves every s3_client() scope the task is in
unwind(slots, held) ==
    IF held = 2 THEN exit_s3_client(exit_s3_client(slots, TRUE), TRUE)
    ELSE IF held = 1 THEN exit_s3_client(slots, TRUE)
    ELSE slots

\* get_bucket_name returns bucket: to delete_bucket (line 507), or to the
\* caller of the task
gbn_return(rec, bucket) ==
    IF rec.op = "delete_bucket"
    THEN [rec EXCEPT !.pc = "db_call", !.name = Some(bucket)]
    ELSE [rec EXCEPT !.pc = "done", !.ret = Some(bucket)]

\* an exception ends the task
task_raise(rec, exc) == [rec EXCEPT !.pc = "done", !.res = exc, !.held = 0]

\* lines 358-390: get_bucket_name up to its first await
gbn_enter(rec, override, cache) ==
    IF override # None THEN [rec EXCEPT !.pc = "acc_wait"]
    ELSE IF InCache(ContainerBucket, cache) THEN gbn_return(rec, ContainerBucket)
    ELSE [rec EXCEPT !.pc = "probe_wait"]

\* a task calls get_bucket_name()
CallGetBucketName(t) ==
    /\ task[t].pc = "idle"
    /\ task' = [task EXCEPT ![t] = gbn_enter([@ EXCEPT !.op = "get_bucket_name"],
                                             bucket_override, cached_buckets)]
    /\ UNCHANGED <<sem, pool, bucket_override, cached_buckets, buckets, uploadvars>>

\* a task calls delete_bucket(), with or without a bucket name
CallDeleteBucket(t) ==
    /\ task[t].pc = "idle"
    /\ \E name \in {None, Some(ContainerBucket)} :
          task' = [task EXCEPT ![t] = [@ EXCEPT !.op = "delete_bucket",
                                                !.pc = "db_wait", !.name = name]]
    /\ UNCHANGED <<sem, pool, bucket_override, cached_buckets, buckets, uploadvars>>

\* where a task goes on once it holds the slot it waited for
acquired(rec, override, cache) ==
    IF rec.pc = "acc_wait" THEN [rec EXCEPT !.pc = "acc_call"]
    ELSE IF rec.pc = "probe_wait" THEN [rec EXCEPT !.pc = "probe_call"]
    ELSE IF rec.pc = "create_wait"
         THEN [rec EXCEPT !.pc = "create_call", !.created = @ + 1]
    ELSE IF rec.name = None THEN gbn_enter(rec, override, cache)
    ELSE [rec EXCEPT !.pc = "db_call"]

\* line 338: the semaphore gives a waiting task a slot
Acquire(t) ==
    /\ task[t].pc \in Waiting
    /\ sem > 0
    /\ sem' = sem - 1
    /\ task' = [task EXCEPT ![t] = acquired([@ EXCEPT !.held = @ + 1],
                                            bucket_override, cached_buckets)]
    /\ UNCHANGED <<pool, bucket_override, cached_buckets, buckets, uploadvars>>

\* what head_bucket answers
HeadOutcomes(name) ==
    {IF name \in buckets THEN "ok" ELSE "NotFound"} \cup Faults

\* lines 345-355 and 390-393: head_bucket in _get_or_create_bucket answers
HeadBucketReturns(t) ==
    /\ task[t].pc = "probe_call"
    /\ \E out \in HeadOutcomes(ContainerBucket) :
         LET rec == [task[t] EXCEPT !.held = @ - 1, !.fault = @ \/ out \in Faults]
         IN  IF out \in ClientError /\ ErrorCode(out) = 404
             THEN /\ task' = [task EXCEPT ![t] = [rec EXCEPT !.pc = "create_wait"]]
                  /\ sem' = exit_s3_client(sem, TRUE)
                  /\ UNCHANGED cached_buckets
             ELSE IF out = "ok" \/ out \in ClientError
             THEN /\ task' = [task EXCEPT ![t] = gbn_return(rec, ContainerBucket)]
                  /\ sem' = exit_s3_client(sem, out # "ok")
                  /\ cached_buckets' = Append(cached_buckets, ContainerBucket)
             ELSE /\ task' = [task EXCEPT ![t] = task_raise(rec, out)]
                  /\ sem' = unwind(sem, task[t].held)
                  /\ UNCHANGED cached_buckets
    /\ UNCHANGED <<pool, bucket_override, buckets, uploadvars>>

\* what create_bucket answers: a bucket the account already owns is created
\* again without error in the default region and refused in the others
CreateOutcomes(name) ==
    (IF name \in buckets THEN {"ok", "BucketAlreadyOwnedByYou"} ELSE {"ok"})
    \cup Faults

\* lines 354-355 and 392-393: create_bucket answers
CreateBucketReturns(t) ==
    /\ task[t].pc = "create_call"
    /\ \E out \in CreateOutcomes(ContainerBucket) :
         LET rec == [task[t] EXCEPT !.held = @ - 1, !.fault = @ \/ out \in Faults]
         IN  IF out = "ok"
             THEN /\ task' = [task EXCEPT ![t] = gbn_return(rec, ContainerBucket)]
                  /\ sem' = exit_s3_client(sem, FALSE)
                  /\ buckets' = buckets \cup {ContainerBucket}
                  /\ cached_buckets' = Append(cached_buckets, ContainerBucket)
             ELSE /\ task' = [task EXCEPT ![t] = task_raise(rec, out)]
                  /\ sem' = unwind(sem, task[t].held)
                  /\ UNCHANGED <<buckets, cached_buckets>>
    /\ UNCHANGED <<pool, bucket_override, uploadvars>>

\* lines 363-372 and 522-530: head_bucket in check_bucket_accessibility answers
AccessibilityReturns(t) ==
    /\ task[t].pc = "acc_call"
    /\ \E out \in HeadOutcomes(Val(bucket_override)) :
         LET rec == [task[t] EXCEPT !.held = @ - 1, !.fault = @ \/ out \in Faults]
         IN  IF out = "ok"
             THEN /\ task' = [task EXCEPT ![t] = gbn_return(rec, Val(bucket_override))]
                  /\ sem' = exit_s3_client(sem, FALSE)
             ELSE /\ task' = [task EXCEPT ![t] =
                                task_raise(rec,
                                           IF out \notin ClientError THEN out
                                           ELSE IF ErrorCode(out) = 404
                                                THEN "HTTPPreconditionFailed"
                                           ELSE "S3Exception")]
                  /\ sem' = unwind(sem, task[t].held)
    /\ UNCHANGED <<pool, bucket_override, cached_buckets, buckets, uploadvars>>

\* lines 509-516: delete_bucket answers
DeleteBucketReturns(t) ==
    /\ task[t].pc = "db_call"
    /\ \E out \in {IF Val(task[t].name) \in buckets THEN "ok" ELSE "NotFound"}
                  \cup Faults :
         LET rec == [task[t] EXCEPT !.held = @ - 1, !.fault = @ \/ out \in Faults]
         IN  IF out = "ok"
             THEN /\ task' = [task EXCEPT ![t] = [rec EXCEPT !.pc = "done"]]
                  /\ sem' = exit_s3_client(sem, FALSE)
                  /\ buckets' = buckets \ {Val(task[t].name)}
             ELSE /\ task' = [task EXCEPT ![t] = task_raise(rec, out)]
                  /\ sem' = unwind(sem, task[t].held)
                  /\ UNCHANGED buckets
    /\ UNCHANGED <<pool, bucket_override, cached_buckets, uploadvars>>

-----------------------------------------------------------------------------
(* The state machine: one action per operation.  An operation leaves, in    *)
(* last, its name, its result, the remote calls it issued and the session   *)
(* it started from; Returned hands the result to the caller and keeps, in   *)
(* prev, what the next operation is compared with.                          *)

NoOperation ==
    [op |-> "none", res |-> "ok", calls |-> <<>>, pre |-> BlankSession, ret |-> None]

NoSummary == [op |-> "none", res |-> "ok", ret |-> None, creates |-> 0]

Calls(op) == {i \in 1..Len(last.calls) : last.calls[i].op = op}

\* the operations whose returned value the caller looks at
Answering == {"get_bucket_name", "iterate_bucket", "delete_blobs"}

\* the operation named op, run to the world w, becomes the last operation
Commit(op, w, next_phase) ==
    /\ last.op = "none"
    /\ dm' = w.dm
    /\ file_uri' = w.file_uri
    /\ bucket_override' = w.bucket_override
    /\ cached_buckets' = w.cached_buckets
    /\ buckets' = w.buckets
    /\ uploads' = w.uploads
    /\ objects' = w.objects
    /\ uploaded' = w.uploaded
    /\ nkeys' = w.nkeys
    /\ nmpu' = w.nmpu
    /\ last' = [op |-> op, res |-> w.res, calls |-> w.calls, pre |-> dm,
                ret |-> IF op \in Answering /\ w.res = "ok" THEN Some(w.ret) ELSE None]
    /\ prev' = prev
    /\ phase' = next_phase
    /\ started_key' = IF op = "start" /\ w.res = "ok" THEN w.dm.upload_file_id
                      ELSE started_key
    /\ UNCHANGED poolvars

Returned ==
    /\ last.op # "none"
    /\ last' = NoOperation
    /\ prev' = IF last.op = "get_bucket_name" /\ bucket_override = None
               THEN [op |-> last.op, res |-> last.res, ret |-> last.ret,
                     creates |-> Cardinality(Calls("create_bucket"))]
               ELSE NoSummary
    /\ UNCHANGED <<dm, file_uri, bucket_override, cached_buckets, buckets, uploads,
                   objects, uploaded, nkeys, nmpu, phase, started_key>>
    /\ UNCHANGED poolvars

\* Fault plans: a call the operation cannot issue is given no fault, and an
\* operation without a fault is given one error only
Flags(issued) == IF issued THEN BOOLEAN ELSE {FALSE}

Counts(issued, most) == IF issued THEN 0..most ELSE {0}

ErrorsOf(faulty) == IF faulty THEN Errors ELSE {"TimeoutError"}

\* get_bucket_name() would probe the bucket, and could go on to create it
Probes == bucket_override # None \/ ~InCache(ContainerBucket, cached_buckets)
Creates == bucket_override = None /\ ~InCache(ContainerBucket, cached_buckets)

Aborted(w) ==
    \E i \in 1..Len(w.calls) :
        w.calls[i].op = "abort_multipart_upload" /\ w.calls[i].res = "ok"

Open == {"Started", "Uploading", "Completing"}

Start ==
    /\ nkeys < MaxStarts
    /\ \E a \in Flags(HoldsUpload(dm)), h \in Flags(Probes), c \in Flags(Creates),
          n \in 0..max_tries :
         \E e \in ErrorsOf(a \/ h \/ c \/ n > 0) :
          LET f == [NoFaults(e) EXCEPT !.abort = a, !.head = h, !.createb = c,
                                       !.create = n]
              w == start(World, f)
          IN  Commit("start", w,
                     IF w.res = "ok" THEN "Started"
                     ELSE IF Aborted(w) THEN "Aborted" ELSE phase)

\* the chunk sequences of one append() that fit the upload
Iterables(d) ==
    LET room == IF d.block = None THEN 1 ELSE MaxParts + 1 - Val(d.block)
    IN  UNION { [1..n -> Data] : n \in 1..room }

Append_ ==
    \E iterable \in Iterables(dm) :
      \E p \in [1..Len(iterable) -> Counts(dm.mpu # None, max_tries)] :
        \E e \in ErrorsOf(\E i \in 1..Len(p) : p[i] > 0) :
          LET w == append(World, iterable, [NoFaults(e) EXCEPT !.part = p], 1)
          IN  Commit("append", w, IF w.dm # dm THEN "Uploading" ELSE phase)

Finish ==
    \E should_clean \in Flags(is_uploaded_file(file_uri)) :
      \E h \in Flags(should_clean /\ Probes), c \in Flags(should_clean /\ Creates),
         d \in Flags(should_clean),
         p \in Counts(ZeroLength(dm), max_tries * max_tries),
         n \in Counts(dm.mpu # None, max_tries) :
        \E e \in ErrorsOf(h \/ c \/ d \/ p > 0 \/ n > 0) :
          LET f == [NoFaults(e) EXCEPT !.head = h, !.createb = c, !.del = d,
                                       !.part = <<p>>, !.complete = n]
              w == finish(World, f, should_clean)
              completing ==
                  \E i \in 1..Len(w.calls) :
                      w.calls[i].op \in {"upload_part", "complete_multipart_upload"}
          IN  Commit("finish", w,
                     IF w.res = "ok" /\ dm.mpu # None THEN "Completed"
                     ELSE IF w.res # "ok" /\ completing /\ phase \in Open
                          THEN "Completing"
                     ELSE phase)

GetBucketName ==
    \E h \in Flags(Probes), c \in Flags(Creates) :
      \E e \in ErrorsOf(h \/ c) :
        Commit("get_bucket_name",
               get_bucket_name(World, [NoFaults(e) EXCEPT !.head = h, !.createb = c]),
               phase)

IterData ==
    \E h \in Flags(Probes), c \in Flags(Creates),
       n \in Counts(is_uploaded_file(file_uri), max_tries) :
      \E e \in ErrorsOf(h \/ c \/ n > 0) :
        Commit("iter_data",
               iter_data(World, [NoFaults(e) EXCEPT !.head = h, !.createb = c,
                                                    !.get = n]),
               phase)

\* the host's data manager saves a finished upload on the field: the file of
\* the field gets the session's uri, and the session is emptied
DmFinish ==
    /\ dm.uri # None
    /\ Commit("dm_finish", [World EXCEPT !.file_uri = dm.uri, !.dm = BlankSession],
              phase)

\* the container's bucket_override is configured
SetOverride ==
    /\ bucket_override = None
    /\ Commit("set_override", [World EXCEPT !.bucket_override = Some(OverrideBucket)],
              phase)

\* the container's bucket_override is removed
ClearOverride ==
    /\ bucket_override # None
    /\ Commit("clear_override", [World EXCEPT !.bucket_override = None], phase)

\* the key lists of one delete_blobs(): some keys, each once
KeyLists ==
    {ks \in UNION {[1..n -> Keys] : n \in 1..MaxKeys} :
        \A i, j \in 1..Len(ks) : i # j => ks[i] # ks[j]}

IterateBucket ==
    \E page \in 1..MaxPage, h \in Flags(Probes), c \in Flags(Creates),
       n \in 0..(2 + MaxKeys) :
      \E e \in ErrorsOf(h \/ c \/ n > 0) :
        Commit("iterate_bucket",
               iterate_bucket(World, page, [NoFaults(e) EXCEPT !.head = h,
                                               !.createb = c, !.list = n]),
               phase)

DeleteBlobs ==
    \E keys \in KeyLists, named \in BOOLEAN, d \in BOOLEAN :
      \E h \in Flags(~named /\ Probes), c \in Flags(~named /\ Creates),
         failing \in IF d THEN {{}} ELSE SUBSET {keys[i] : i \in 1..Len(keys)} :
        \E e \in ErrorsOf(h \/ c \/ d) :
          Commit("delete_blobs",
                 delete_blobs(World, keys,
                              IF named THEN Some(ContainerBucket) ELSE None,
                              [NoFaults(e) EXCEPT !.head = h, !.createb = c,
                                                  !.delobjs = d, !.failed = failing]),
                 phase)

Init ==
    /\ dm = BlankSession
    /\ file_uri = None
    /\ bucket_override = None
    /\ cached_buckets = <<>>
    /\ buckets \in SUBSET {OverrideBucket, ContainerBucket}
    /\ uploads = {}
    /\ objects = {}
    /\ uploaded = <<>>
    /\ nkeys = 0
    /\ nmpu = 0
    /\ last = NoOperation
    /\ prev = NoSummary
    /\ phase = "Idle"
    /\ started_key = None
    /\ PoolIdle(MaxPool)

\* the upload lifecycle of one destination field
Next ==
    \/ Start
    \/ Append_
    \/ Finish
    \/ IterData
    \/ DmFinish
    \/ SetOverride
    \/ Returned

Spec == Init /\ [][Next]_vars

\* bucket resolution on its own
BucketNext ==
    \/ GetBucketName
    \/ SetOverride
    \/ ClearOverride
    \/ Returned

BucketSpec == Init /\ [][BucketNext]_vars

\* a bucket that holds objects when the vacuum starts
VacuumInit ==
    /\ dm = BlankSession
    /\ file_uri = None
    /\ bucket_override = None
    /\ cached_buckets = <<>>
    /\ buckets \in SUBSET {ContainerBucket}
    /\ uploads = {}
    /\ objects \in SUBSET Keys
    /\ objects # {} => ContainerBucket \in buckets
    /\ uploaded = <<>>
    /\ nkeys = 0
    /\ nmpu = 0
    /\ last = NoOperation
    /\ prev = NoSummary
    /\ phase = "Idle"
    /\ started_key = None
    /\ PoolIdle(MaxPool)

\* enumeration and batched delete of the objects of a bucket
VacuumNext ==
    \/ IterateBucket
    \/ DeleteBlobs
    \/ Returned

VacuumSpec == VacuumInit /\ [][VacuumNext]_vars

\* a store with a pool of 1..MaxPool connections
PoolInit ==
    /\ dm = BlankSession
    /\ file_uri = None
    /\ bucket_override \in {None, Some(OverrideBucket)}
    /\ cached_buckets = <<>>
    /\ buckets \in SUBSET {OverrideBucket, ContainerBucket}
    /\ uploads = {}
    /\ objects = {}
    /\ uploaded = <<>>
    /\ nkeys = 0
    /\ nmpu = 0
    /\ last = NoOperation
    /\ prev = NoSummary
    /\ phase = "Idle"
    /\ started_key = None
    /\ \E n \in 1..MaxPool : PoolIdle(n)

\* a step of task t after its operation was called
Step(t) ==
    \/ HeadBucketReturns(t)
    \/ CreateBucketReturns(t)
    \/ AccessibilityReturns(t)
    \/ DeleteBucketReturns(t)

\* tasks that share the store
PoolNext ==
    \E t \in Tasks :
        \/ CallGetBucketName(t)
        \/ CallDeleteBucket(t)
        \/ Acquire(t)
        \/ Step(t)

\* every remote call is answered, and the semaphore wakes its waiters in the
\* order they came, so a task that can again and again take a slot takes one
PoolSpec ==
    /\ PoolInit
    /\ [][PoolNext]_vars
    /\ \A t \in Tasks : WF_vars(Step(t)) /\ SF_vars(Acquire(t))

-----------------------------------------------------------------------------
(* Properties *)

\* the calls of remote operation op the last operation issued, in order
CallSeq(op) == SelectSeq(last.calls, LAMBDA c : c.op = op)

\* those of them that S3 accepted
Accepted(op) == SelectSeq(last.calls, LAMBDA c : c.op = op /\ c.res = "ok")

\* the session before the last operation held an open multipart upload
WasStarted == last.pre.upload_file_id # None /\ last.pre.mpu # None

\* C1: every completion call of finish() lists exactly the parts 1..N that S3
\* accepted for the upload, in ascending order, entry k with the ETag S3
\* returned for the k-th accepted part, which was uploaded as PartNumber k.
C1_PartsInOrder ==
    last.op = "finish" =>
        \A i \in 1..Len(last.calls) :
            last.calls[i].op = "complete_multipart_upload" =>
                LET parts == last.calls[i].MultipartUpload
                IN  /\ Len(parts) = Len(uploaded)
                    /\ Len(parts) >= 1
                    /\ \A k \in 1..Len(parts) :
                          /\ parts[k].PartNumber = k
                          /\ parts[k].ETag = uploaded[k].ETag
                          /\ uploaded[k].PartNumber = k

\* a finish() that succeeded on an upload of MaxParts appended chunks
C1_Witness ==
    /\ last.op = "finish"
    /\ last.res = "ok"
    /\ last.pre.block = Some(MaxParts + 1)
    /\ Len(uploaded) = MaxParts
    /\ \A k \in 1..Len(uploaded) : uploaded[k].Body \in Data
    /\ Len(Accepted("complete_multipart_upload")) = 1

\* C2: finish() on an upload without a recorded part uploads exactly one part,
\* of empty body and PartNumber 1, and completes with exactly that part;
\* finish() on an upload with a recorded part issues no upload_part call.
C2_ZeroLengthUpload ==
    (last.op = "finish" /\ WasStarted) =>
        LET empty == Accepted("upload_part")
            done  == CallSeq("complete_multipart_upload")
        IN  IF last.pre.block = Some(1)
            THEN /\ Len(empty) <= 1
                 /\ \A i \in 1..Len(empty) :
                       empty[i].Body = EmptyBody /\ empty[i].PartNumber = 1
                 /\ \A i \in 1..Len(done) :
                       /\ Len(empty) = 1
                       /\ done[i].MultipartUpload =
                            <<[PartNumber |-> 1, ETag |-> Val(empty[1].ETag)]>>
                 /\ last.res = "ok" => Len(empty) = 1 /\ Len(uploaded) = 1
            ELSE CallSeq("upload_part") = <<>>

\* a finish() that succeeded right after start()
C2_Witness ==
    /\ last.op = "finish"
    /\ last.res = "ok"
    /\ WasStarted
    /\ last.pre.multipart = Some(<<>>)
    /\ Len(Accepted("upload_part")) = 1
    /\ Len(Accepted("complete_multipart_upload")) = 1

\* C3: start() on a session that holds an open multipart upload first issues
\* one abort call with the old bucket, key and upload id, before any other
\* call; when it returns, the session holds the new upload id and key, no
\* part, and part number 1.
C3_StaleSessionRestart ==
    (last.op = "start" /\ WasStarted) =>
        LET created == Accepted("create_multipart_upload")
        IN  /\ Len(last.calls) >= 1
            /\ last.calls[1] =
                 [op |-> "abort_multipart_upload",
                  Bucket |-> Val(last.pre.bucket_name),
                  Key |-> Val(last.pre.upload_file_id),
                  UploadId |-> Val(last.pre.mpu), res |-> last.calls[1].res]
            /\ Len(CallSeq("abort_multipart_upload")) = 1
            /\ last.res = "ok" =>
                 /\ Len(created) = 1
                 /\ dm.mpu = created[1].UploadId
                 /\ dm.mpu # last.pre.mpu
                 /\ dm.upload_file_id = Some(created[1].Key)
                 /\ dm.upload_file_id # last.pre.upload_file_id
                 /\ dm.bucket_name = Some(created[1].Bucket)
                 /\ dm.multipart = Some(<<>>)
                 /\ dm.block = Some(1)

\* a start() that replaced an upload holding a part, in another bucket
C3_Witness ==
    /\ last.op = "start"
    /\ last.res = "ok"
    /\ WasStarted
    /\ last.pre.block = Some(2)
    /\ last.pre.bucket_name # dm.bucket_name
    /\ last.calls[1].op = "abort_multipart_upload"
    /\ last.calls[1].res = "ok"

\* the calls of the last operation that repeat the request of call i
SameRequest(i) ==
    {j \in 1..Len(last.calls) :
        /\ last.calls[j].op = last.calls[i].op
        /\ last.calls[i].op = "upload_part" =>
               last.calls[j].PartNumber = last.calls[i].PartNumber}

RetryWrapped == {"create_multipart_upload", "upload_part", "complete_multipart_upload"}

\* the errors the specification classifies as not retryable, as S3 reports
\* them, and the errors it classifies as retryable
NonRetryable == {"NotFound", "AccessDenied"}
Retryable == RETRIABLE_EXCEPTIONS \ NonRetryable

\* C4: in one start(), append() or finish(), a retry-wrapped remote call that
\* fails with a retryable error on every attempt is invoked exactly 3 times,
\* and the operation then fails with the error of the last attempt.
C4_RetryBound ==
    last.op \in {"start", "append", "finish"} =>
        \A i \in 1..Len(last.calls) :
            (/\ last.calls[i].op \in RetryWrapped
             /\ \A j \in SameRequest(i) : last.calls[j].res \in Retryable)
            => /\ Cardinality(SameRequest(i)) = 3
               /\ last.res = last.calls[Len(last.calls)].res


\* C5: a retry-wrapped remote call that fails with a non-retryable error
\* reported by S3 is invoked once: no second attempt follows, and the error is
\* the result of the operation.
C5_NonRetryableOnce ==
    \A i \in 1..Len(last.calls) :
        (/\ last.calls[i].op \in RetryWrapped \cup {"get_object"}
         /\ last.calls[i].res \in NonRetryable)
        => /\ \A j \in SameRequest(i) : j <= i
           /\ last.res = last.calls[i].res

\* C6: of two successive get_bucket_name() calls without an override, the
\* first of which returned, the second returns the same name and issues no
\* remote call; at most one create_bucket call is issued by the two.
C6_IdempotentBucket ==
    (/\ last.op = "get_bucket_name"
     /\ prev.op = "get_bucket_name"
     /\ prev.res = "ok"
     /\ bucket_override = None)
    => /\ last.res = "ok"
       /\ last.ret = prev.ret
       /\ last.calls = <<>>
       /\ prev.creates + Len(CallSeq("create_bucket")) <= 1

\* a second call, after a first one that created the bucket
C6_Witness ==
    /\ last.op = "get_bucket_name"
    /\ prev.op = "get_bucket_name"
    /\ prev.res = "ok"
    /\ prev.creates = 1
    /\ bucket_override = None
    /\ last.ret = Some(ContainerBucket)

C8_PartsMatchBlock ==
    /\ dm.block = None <=> dm.multipart = None
    /\ dm.block # None =>
          /\ Len(Val(dm.multipart)) = Val(dm.block) - 1
          /\ \A k \in 1..Len(Val(dm.multipart)) : Val(dm.multipart)[k].PartNumber = k

\* an append() that failed on its second chunk, after recording the first
C8_Witness ==
    /\ last.op = "append"
    /\ last.res # "ok"
    /\ last.pre.block = Some(1)
    /\ dm.block = Some(2)
    /\ Len(CallSeq("upload_part")) > Len(Accepted("upload_part"))

\* C9: the session holds an upload id exactly in the states Started,
\* Uploading and Completing.
C9_UploadIdIffOpen == (dm.mpu # None) <=> (phase \in Open)

\* C10: when start() aborts a stale upload and the abort call fails, the
\* failure is not the result of start(): start() goes on to resolve the bucket
\* and create the new upload, fails only if one of those calls fails, and
\* otherwise holds the new upload id, no part and part number 1.
C10_AbortNeverRaises ==
    (/\ last.op = "start"
     /\ Len(last.calls) >= 1
     /\ last.calls[1].op = "abort_multipart_upload"
     /\ last.calls[1].res # "ok")
    => LET n == Len(last.calls)
           created == Accepted("create_multipart_upload")
       IN  IF last.res = "ok"
           THEN /\ Len(created) = 1
                /\ dm.mpu = created[1].UploadId
                /\ dm.mpu # last.pre.mpu
                /\ dm.multipart = Some(<<>>)
                /\ dm.block = Some(1)
           ELSE /\ n >= 2
                /\ last.calls[n].op \in
                     {"head_bucket", "create_bucket", "create_multipart_upload"}
                /\ last.calls[n].res # "ok"

\* a start() that succeeded although the abort failed with an error that is
\* not a ClientError
C10_Witness ==
    /\ last.op = "start"
    /\ last.res = "ok"
    /\ Len(last.calls) >= 2
    /\ last.calls[1].op = "abort_multipart_upload"
    /\ last.calls[1].res = "TimeoutError"
    /\ dm.block = Some(1)
    /\ dm.mpu # last.pre.mpu

\* the calls of the last operation that belong to the delete of the previous
\* file: the delete itself and the bucket resolution before it
Cleanup == {"head_bucket", "create_bucket", "delete_object"}

\* C11: in finish() on a started session, the delete of the previous object
\* is issued before the completion call, and a failure of that delete or of
\* the bucket resolution for it is not the result of finish(): finish() fails
\* only if the upload of the empty part or the completion call fails.
C11_DeleteNeverBlocks ==
    (last.op = "finish" /\ WasStarted) =>
        /\ \A i, j \in 1..Len(last.calls) :
              (/\ last.calls[i].op \in Cleanup
               /\ last.calls[j].op \in {"upload_part", "complete_multipart_upload"})
              => i < j
        /\ last.res # "ok" =>
              /\ Len(last.calls) >= 1
              /\ last.calls[Len(last.calls)].op \in
                   {"upload_part", "complete_multipart_upload"}
              /\ last.calls[Len(last.calls)].res = last.res

\* C13: in get_bucket_name() without an override, a probe that reports
\* not-found is followed by one create_bucket call; a probe that fails with
\* any other error makes get_bucket_name() fail with that error, without a
\* create_bucket call and without the name being cached.
C13_ProbeErrorPropagates ==
    (/\ last.op = "get_bucket_name"
     /\ bucket_override = None
     /\ Len(last.calls) >= 1
     /\ last.calls[1].op = "head_bucket")
    => IF last.calls[1].res = "NotFound"
       THEN Len(CallSeq("create_bucket")) = 1
       ELSE last.calls[1].res # "ok" =>
                /\ last.res = last.calls[1].res
                /\ CallSeq("create_bucket") = <<>>
                /\ ~InCache(ContainerBucket, cached_buckets)

\* C14: with an override configured, every get_bucket_name() issues exactly
\* one remote call, the probe of the override; a probe that reports not-found
\* makes it fail with HTTPPreconditionFailed, and a probe that succeeds makes
\* it return the override name; the cache and the buckets are left as they
\* were.
C14_OverrideProbed ==
    [][(last'.op = "get_bucket_name" /\ bucket_override # None) =>
          /\ Len(last'.calls) = 1
          /\ last'.calls[1].op = "head_bucket"
          /\ last'.calls[1].Bucket = Val(bucket_override)
          /\ last'.calls[1].res = "NotFound" => last'.res = "HTTPPreconditionFailed"
          /\ last'.calls[1].res = "ok" =>
                last'.res = "ok" /\ last'.ret = bucket_override
          /\ cached_buckets' = cached_buckets
          /\ buckets' = buckets
          /\ bucket_override' = bucket_override]_vars

\* a call with an override that returned it, while the cache holds the
\* computed name of an earlier call
C14_Witness ==
    /\ last.op = "get_bucket_name"
    /\ bucket_override = Some(OverrideBucket)
    /\ last.res = "ok"
    /\ last.ret = Some(OverrideBucket)
    /\ last.calls[1].res = "ok"
    /\ cached_buckets = <<ContainerBucket>>

\* C17: an abort call of start() that fails with a retryable error is invoked
\* again, until 3 attempts have been made.
C17_AbortRetried ==
    last.op = "start" =>
        \A i \in 1..Len(last.calls) :
            (/\ last.calls[i].op = "abort_multipart_upload"
             /\ last.calls[i].res \in Retryable
             /\ Cardinality({j \in 1..i :
                               last.calls[j].op = "abort_multipart_upload"}) < 3)
            => \E j \in (i + 1)..Len(last.calls) :
                   last.calls[j].op = "abort_multipart_upload"

\* C20: after every append() on a started session, failed or not, the parts
\* list is the list before it followed by one entry for each chunk S3
\* accepted, numbered on from the part number before it, and the part number
\* has advanced by the number of accepted chunks; the first upload_part call
\* carries the part number the session held; when append() fails, its last
\* call is a failed upload_part of the part number the session now holds, and
\* no call of that number was accepted.
C20_AppendResumes ==
    (last.op = "append" /\ last.pre.mpu # None) =>
        LET acc == Accepted("upload_part")
            all == CallSeq("upload_part")
            b   == Val(last.pre.block)
        IN  /\ dm.block = Some(b + Len(acc))
            /\ dm.multipart =
                 Some(Val(last.pre.multipart) \o
                      [k \in 1..Len(acc) |->
                          [PartNumber |-> b + k - 1, ETag |-> Val(acc[k].ETag)]])
            /\ \A k \in 1..Len(acc) : acc[k].PartNumber = b + k - 1
            /\ all = last.calls
            /\ Len(all) >= 1
            /\ all[1].PartNumber = b
            /\ \A i \in 1..Len(all) :
                  all[i].PartNumber =
                      b + Cardinality({j \in 1..(i - 1) : all[j].res = "ok"})
            /\ last.res # "ok" =>
                  /\ all[Len(all)].res = last.res
                  /\ all[Len(all)].PartNumber = Val(dm.block)
                  /\ \A i \in 1..Len(all) :
                        all[i].PartNumber = Val(dm.block) => all[i].res # "ok"

\* an append() whose first chunk was accepted on its second attempt and whose
\* second chunk failed on all three
C20_Witness ==
    /\ last.op = "append"
    /\ last.res \in RETRIABLE_EXCEPTIONS
    /\ last.pre.block = Some(1)
    /\ dm.block = Some(2)
    /\ Len(Val(dm.multipart)) = 1
    /\ Len(last.calls) = 5
    /\ last.calls[1].res # "ok"
    /\ last.calls[2].res = "ok"

\* C15: enumerating a bucket that holds N >= 1 objects, listed by S3 in
\* pages of P entries, issues exactly ceil(N/P) listing calls and yields every
\* object exactly once, in the order of the pages.
C15_PaginationCalls ==
    (last.op = "iterate_bucket" /\ last.res = "ok" /\ objects # {}) =>
        LET N     == Cardinality(objects)
            lists == CallSeq("list_objects")
            P     == lists[1].MaxKeys
        IN  /\ Len(lists) = (N + P - 1) \div P
            /\ last.ret = Some(Listing(objects))

\* the keys of a list
KeySet(ks) == {ks[i] : i \in 1..Len(ks)}

\* C16: delete_blobs() issues at most one delete_objects call, and exactly one
\* when it returns; when S3 answers that call, delete_blobs() returns, also
\* when keys are reported as errors: the failed keys are those S3 reported as
\* errors, the succeeded keys those it reported as deleted, the two are
\* disjoint and together are the requested keys.
C16_PartialDelete ==
    last.op = "delete_blobs" =>
        LET batch == CallSeq("delete_objects")
        IN  /\ Len(batch) <= 1
            /\ last.res = "ok" => Len(batch) = 1
            /\ (Len(batch) = 1 /\ batch[1].res = "ok") =>
                  /\ last.res = "ok"
                  /\ Val(last.ret)[1] = batch[1].Deleted
                  /\ Val(last.ret)[2] = batch[1].Errors
                  /\ KeySet(Val(last.ret)[1]) \cap KeySet(Val(last.ret)[2]) = {}
                  /\ KeySet(Val(last.ret)[1]) \cup KeySet(Val(last.ret)[2])
                       = KeySet(batch[1].Objects)
                  /\ Len(Val(last.ret)[1]) + Len(Val(last.ret)[2])
                       = Len(batch[1].Objects)
                  /\ objects \cap KeySet(Val(last.ret)[1]) = {}

\* a delete_blobs() of MaxKeys keys, without a bucket name, that returned some
\* keys as deleted and some as failed
C16_Witness ==
    /\ last.op = "delete_blobs"
    /\ last.res = "ok"
    /\ Len(last.calls) >= 2
    /\ Len(last.calls[Len(last.calls)].Objects) = MaxKeys
    /\ Val(last.ret)[1] # <<>>
    /\ Val(last.ret)[2] # <<>>

RECURSIVE SlotsHeld(_)
\* the slots held by the tasks 1..n
SlotsHeld(n) == IF n = 0 THEN 0 ELSE task[n].held + SlotsHeld(n - 1)

\* C12: at most max_pool_connections tasks hold a client handle at a time;
\* every slot is either free or held by a task inside an s3_client() scope,
\* a task that is not inside one holds none, and once every operation has
\* ended, by a return or by an exception, all max_pool_connections slots are
\* free.
C12_PoolBound ==
    /\ sem \in 0..pool
    /\ Cardinality({t \in Tasks : task[t].held > 0}) <= pool
    /\ sem + SlotsHeld(NumTasks) = pool
    /\ \A t \in Tasks :
          /\ task[t].pc \in {"idle", "done"} => task[t].held = 0
          /\ task[t].pc \in {"acc_call", "probe_call", "create_call", "db_call"}
                => task[t].held >= 1
    /\ (\A t \in Tasks : task[t].pc \in {"idle", "done"}) => sem = pool

\* every task has ended, one of them by an exception raised inside two
\* nested s3_client() scopes, another by a return
C12_Witness ==
    /\ \A t \in Tasks : task[t].pc = "done"
    /\ \E t \in Tasks :
          /\ task[t].op = "delete_bucket"
          /\ task[t].name = None
          /\ task[t].res = "TimeoutError"
    /\ \E t \in Tasks : task[t].res = "ok"
    /\ sem = pool

\* the number of times name is in the cache
Cached(name) ==
    Cardinality({i \in 1..Len(cached_buckets) : cached_buckets[i] = name})

RECURSIVE CreateCalls(_)
\* the create_bucket calls issued by the tasks 1..n
CreateCalls(n) == IF n = 0 THEN 0 ELSE task[n].created + CreateCalls(n - 1)

\* C18: when the tasks run only get_bucket_name(), without an override, for
\* a bucket that was neither cached nor existing (a create_bucket call was
\* issued), at most one create_bucket call is issued for the bucket, the cache
\* holds the name at most once, and a call whose remote calls S3 did not fail
\* returns the name.
C18_SingleCreate ==
    (/\ bucket_override = None
     /\ \A t \in Tasks : task[t].op \in {"none", "get_bucket_name"}
     /\ CreateCalls(NumTasks) >= 1)
    => /\ CreateCalls(NumTasks) <= 1
       /\ Cached(ContainerBucket) <= 1
       /\ \A t \in Tasks :
             (task[t].pc = "done" /\ ~task[t].fault) =>
                 task[t].res = "ok" /\ task[t].ret = Some(ContainerBucket)

\* C19: a task that waits for a slot of the pool eventually holds it.
C19_NoPoolDeadlock ==
    \A t \in Tasks : (task[t].pc \in Waiting) ~> (task[t].pc \notin Waiting)

\* C21: in finish() of an upload without a recorded part, once a completion
\* call has been issued no upload_part call follows it, however many
\* completion attempts are made: at most one part is accepted, every
\* completion call lists exactly that part as PartNumber 1, and when finish()
\* fails after a completion call the session holds one part and part number 2.
C21_EmptyPartOnce ==
    (last.op = "finish" /\ WasStarted /\ last.pre.block = Some(1)) =>
        LET done == CallSeq("complete_multipart_upload")
        IN  /\ \A i, j \in 1..Len(last.calls) :
                  (/\ last.calls[i].op = "complete_multipart_upload"
                   /\ last.calls[j].op = "upload_part")
                  => j < i
            /\ Len(Accepted("upload_part")) <= 1
            /\ \A i \in 1..Len(done) :
                  /\ Len(done[i].MultipartUpload) = 1
                  /\ done[i].MultipartUpload[1].PartNumber = 1
                  /\ done[i].MultipartUpload = done[1].MultipartUpload
            /\ (done # <<>> /\ last.res # "ok") =>
                  /\ dm.block = Some(2)
                  /\ Len(Val(dm.multipart)) = 1

\* a finish() of an upload without a recorded part whose completion call
\* failed twice with a retried error and was accepted on the third attempt
C21_Witness ==
    /\ last.op = "finish"
    /\ last.res = "ok"
    /\ WasStarted
    /\ last.pre.block = Some(1)
    /\ Len(CallSeq("complete_multipart_upload")) = 3
    /\ Len(CallSeq("upload_part")) = 1
    /\ CallSeq("complete_multipart_upload")[1].res \in RETRIABLE_EXCEPTIONS

\* C22: a finish() on a started session that deletes the object the
\* destination referenced is a finish() that succeeds, with its completion
\* call accepted: after a finish() that fails, the object referenced before
\* it is still stored.
C22_OldObjectKept ==
    (last.op = "finish" /\ WasStarted /\ Accepted("delete_object") # <<>>) =>
        /\ last.res = "ok"
        /\ Accepted("complete_multipart_upload") # <<>>

====
